---- MODULE Spec2Model ----
(***************************************************************************)
(* UCP capability registry (capabilities.py) and the registration helper   *)
(* of agent.py.                                                            *)
(*                                                                         *)
(* heap    the AgentCapabilities objects constructed so far; an object is  *)
(*         named by its index and is held by reference.                    *)
(* agents  CapabilityRegistry.agents, a Python dict: a sequence of         *)
(*         <<key, reference>> pairs in key-insertion order.                *)
(* regLog  the "[UCP] Registered agent" notices register_agent has         *)
(*         printed, one per call, each naming the object registered.       *)
(* ret     the call that returned last, with its arguments and result.     *)
(***************************************************************************)
EXTENDS Integers, Sequences, FiniteSets, TLC

VARIABLES heap, agents, regLog, ret

vars == <<heap, agents, regLog, ret>>

(* ---------------------------- bounds ----------------------------------- *)

\* AgentCapabilities objects constructed in one run.
MaxObjects == 3
\* Capabilities held by all AgentCapabilities objects together.
MaxCaps == 2
\* Calls of register_agent in one run.
MaxRegs == 3

(* ---------------------------- values ----------------------------------- *)

\* Optional[T]: None, or the value wrapped.
None == <<>>
Some(x) == <<x>>

\* class CapabilityType(str, Enum): the member names ...
CapabilityType ==
  {"WEATHER", "FILESYSTEM", "COPYWRITING", "REVIEW", "ANALYSIS", "ORCHESTRATION"}

\* A slip in the enumeration: REVIEW given the value of WEATHER.
CapabilityTypeValueSlip(t) ==
  CASE t = "WEATHER" -> "weather"
    [] t = "FILESYSTEM" -> "filesystem"
    [] t = "COPYWRITING" -> "copywriting"
    [] t = "REVIEW" -> "weather"
    [] t = "ANALYSIS" -> "analysis"
    [] t = "ORCHESTRATION" -> "orchestration"

\* ... and each member's .value
CapabilityTypeValue(t) ==
  CASE t = "WEATHER" -> "weather"
    [] t = "FILESYSTEM" -> "filesystem"
    [] t = "COPYWRITING" -> "copywriting"
    [] t = "REVIEW" -> "review"
    [] t = "ANALYSIS" -> "analysis"
    [] t = "ORCHESTRATION" -> "orchestration"

\* dataclass Capability; parameters is a dict, kept as a sequence of
\* <<key, value>> pairs, required_permissions a list.
Capability(n, t, d, p, r) ==
  [name |-> n, capability_type |-> t, description |-> d,
   parameters |-> p, required_permissions |-> r]

\* The capabilities callers construct (agent.py builds such values).
CapPool ==
  { Capability("get_weather", "WEATHER", "Get weather information for a location",
               << <<"location", "string">> >>, <<"weather_access">>),
    Capability("review_content", "REVIEW", "Review and provide feedback on content",
               << <<"content", "string">> >>, <<"content_review">>),
    Capability("get_weather", "REVIEW", "Review a forecast", <<>>, <<>>) }

\* Agent ids callers use; the empty id is accepted like any other.
AgentIds == {"", "agent-a"}
AgentNames == {"writer"}

\* Capability names: those of CapPool and one no capability has.
CapabilityNames == {"get_weather", "review_content", "get_stock_price"}

\* Names and kinds the query calls are made with (a name two capabilities of
\* CapPool share and a name none has; a kind two share and a kind none has).
QueryNames == {"get_weather", "get_stock_price"}
QueryTypes == {"REVIEW", "ANALYSIS"}

(* ------------------------- Capability ---------------------------------- *)

\* Capability.to_dict
CapabilityToDict(c) ==
  [name |-> c.name, type |-> CapabilityTypeValue(c.capability_type),
   description |-> c.description, parameters |-> c.parameters,
   required_permissions |-> c.required_permissions]

(* ----------------------- AgentCapabilities ----------------------------- *)

\* AgentCapabilities(agent_name=..., agent_id=...): capabilities defaults to
\* a fresh empty list, version to "1.0".
NewAgentCapabilities(name, id) ==
  [agent_name |-> name, agent_id |-> id, capabilities |-> <<>>, version |-> "1.0"]

\* An add_capability that refuses a name the object already holds.
AddCapabilityUnique(a, c) ==
  IF \E k \in 1..Len(a.capabilities) : a.capabilities[k].name = c.name THEN a
  ELSE [a EXCEPT !.capabilities = Append(@, c)]

\* add_capability: self.capabilities.append(capability)
AddCapability(a, c) == [a EXCEPT !.capabilities = Append(@, c)]

\* next((c for c in caps if c.name == name), None), scanning from index i
RECURSIVE FirstNamed(_, _, _)
FirstNamed(caps, name, i) ==
  IF i > Len(caps) THEN None
  ELSE IF caps[i].name = name THEN Some(caps[i])
  ELSE FirstNamed(caps, name, i + 1)

\* A get_capability that keeps the last match instead of the first.
RECURSIVE LastNamed(_, _, _)
LastNamed(caps, name, i) ==
  IF i < 1 THEN None
  ELSE IF caps[i].name = name THEN Some(caps[i])
  ELSE LastNamed(caps, name, i - 1)

GetCapabilityLast(a, name) == LastNamed(a.capabilities, name, Len(a.capabilities))

\* get_capability
GetCapability(a, name) == FirstNamed(a.capabilities, name, 1)

\* get_capabilities_by_type
GetCapabilitiesByType(a, t) ==
  SelectSeq(a.capabilities, LAMBDA c : c.capability_type = t)

\* AgentCapabilities.to_dict
AgentToDict(a) ==
  [agent_name |-> a.agent_name, agent_id |-> a.agent_id, version |-> a.version,
   capabilities |-> [i \in 1..Len(a.capabilities) |-> CapabilityToDict(a.capabilities[i])]]

(* --------------------------- dict -------------------------------------- *)

DictKeys(d) == {d[i][1] : i \in 1..Len(d)}

DictIndex(d, k) == CHOOSE i \in 1..Len(d) : d[i][1] = k

\* A dict write that deletes an existing key first, so that it moves last.
DictSetMoveToEnd(d, k, v) ==
  Append(SelectSeq(d, LAMBDA e : e[1] # k), <<k, v>>)

\* d[k] = v: an existing key keeps its place, a new key goes last.
DictSet(d, k, v) ==
  IF k \in DictKeys(d) THEN [d EXCEPT ![DictIndex(d, k)] = <<k, v>>]
  ELSE Append(d, <<k, v>>)

\* d.get(k)
DictGet(d, k) == IF k \in DictKeys(d) THEN Some(d[DictIndex(d, k)][2]) ELSE None

(* ----------------------- CapabilityRegistry ---------------------------- *)

\* A register_agent that keeps the entry an id already has (setdefault).
RegisterAgentKeepFirst(d, h, o) ==
  IF h[o].agent_id \in DictKeys(d) THEN d ELSE Append(d, <<h[o].agent_id, o>>)

\* A register_agent that refuses the empty agent id.
RegisterAgentRejectEmpty(d, h, o) ==
  IF h[o].agent_id = "" THEN d ELSE DictSet(d, h[o].agent_id, o)

\* A register_agent that rebinds self.agents to a dict of the one entry.
RegisterAgentReset(d, h, o) == << <<h[o].agent_id, o>> >>

\* register_agent: self.agents[agent_capabilities.agent_id] = agent_capabilities
RegisterAgent(d, h, o) == DictSet(d, h[o].agent_id, o)

\* get_agent_capabilities
GetAgentCapabilities(d, id) == DictGet(d, id)

\* get_all_capabilities_by_type: the loop over self.agents.items() from item i
RECURSIVE AllByTypeFrom(_, _, _, _, _)
AllByTypeFrom(d, h, t, i, result) ==
  IF i > Len(d) THEN result
  ELSE LET caps == GetCapabilitiesByType(h[d[i][2]], t)
       IN AllByTypeFrom(d, h, t, i + 1,
                        IF caps # <<>> THEN DictSet(result, d[i][1], caps) ELSE result)

\* A get_all_capabilities_by_type without the `if caps` test.
GetAllCapabilitiesByTypeUnfiltered(d, h, t) ==
  [i \in 1..Len(d) |-> <<d[i][1], GetCapabilitiesByType(h[d[i][2]], t)>>]

GetAllCapabilitiesByType(d, h, t) == AllByTypeFrom(d, h, t, 1, <<>>)

\* discover_capabilities
DiscoverCapabilities(d, h) ==
  [i \in 1..Len(d) |-> <<d[i][1], AgentToDict(h[d[i][2]])>>]

\* A can_agent_perform that only tests that the agent is known.
CanAgentPerformKnown(d, h, id, name) == GetAgentCapabilities(d, id) # None

\* can_agent_perform
CanAgentPerform(d, h, id, name) ==
  LET agent_caps == GetAgentCapabilities(d, id)
  IN IF agent_caps = None THEN FALSE
     ELSE GetCapability(h[agent_caps[1]], name) # None

\* find_agent_for_capability: the loop from item i
RECURSIVE FindFrom(_, _, _, _)
FindFrom(d, h, name, i) ==
  IF i > Len(d) THEN None
  ELSE IF GetCapability(h[d[i][2]], name) # None THEN Some(d[i][1])
  ELSE FindFrom(d, h, name, i + 1)

\* A find_agent_for_capability that keeps the last match of the scan.
RECURSIVE FindLastFrom(_, _, _, _)
FindLastFrom(d, h, name, i) ==
  IF i < 1 THEN None
  ELSE IF GetCapability(h[d[i][2]], name) # None THEN Some(d[i][1])
  ELSE FindLastFrom(d, h, name, i - 1)

FindLastAgentForCapability(d, h, name) == FindLastFrom(d, h, name, Len(d))

FindAgentForCapability(d, h, name) == FindFrom(d, h, name, 1)

\* print_registry: the lines printed, one tuple per print call
CapLines(c) ==
  << <<"  - ", c.name, CapabilityTypeValue(c.capability_type)>>,
     <<"    Description: ", c.description>> >>
  \o (IF c.required_permissions # <<>>
      THEN << <<"    Requires: ", c.required_permissions>> >> ELSE <<>>)

RECURSIVE CapsLines(_, _)
CapsLines(caps, i) ==
  IF i > Len(caps) THEN <<>> ELSE CapLines(caps[i]) \o CapsLines(caps, i + 1)

AgentLines(id, a) ==
  << <<"Agent: ", a.agent_name, id>>, <<"Version: ", a.version>> >>
  \o (IF a.capabilities # <<>>
      THEN << <<"Capabilities:">> >> \o CapsLines(a.capabilities, 1)
      ELSE << <<"  No capabilities registered.">> >>)
  \o << <<"">> >>

RECURSIVE RegistryLines(_, _, _)
RegistryLines(d, h, i) ==
  IF i > Len(d) THEN <<>>
  ELSE AgentLines(d[i][1], h[d[i][2]]) \o RegistryLines(d, h, i + 1)

PrintRegistry(d, h) ==
  << <<"=== UCP Capability Registry ===">> >>
  \o (IF d = <<>> THEN << <<"No agents registered.">> >> ELSE RegistryLines(d, h, 1))

(* ----------------------------- state ----------------------------------- *)

\* References to the AgentCapabilities objects constructed so far.
Refs == 1..Len(heap)

RECURSIVE SumCaps(_, _)
SumCaps(h, i) == IF i > Len(h) THEN 0 ELSE Len(h[i].capabilities) + SumCaps(h, i + 1)

TotalCaps == SumCaps(heap, 1)

SeqsUpTo(S, n) == UNION {[1..k -> S] : k \in 0..n}

\* The call that returned last: its name, its arguments, its return value.
Ret(op, args, val) == [op |-> op, args |-> args, val |-> val]

\* capability_registry = CapabilityRegistry(): no agents; nothing constructed
\* or printed yet.
Init ==
  /\ heap = <<>>
  /\ agents = <<>>
  /\ regLog = <<>>
  /\ ret = Ret("CapabilityRegistry", <<>>, None)

(* ---------------------------- actions ---------------------------------- *)

\* a.add_capability(c) on any constructed object, stored in the registry or not.
AddCapabilityCall ==
  /\ TotalCaps < MaxCaps
  /\ \E o \in Refs, c \in CapPool :
       /\ heap' = [heap EXCEPT ![o] = AddCapability(@, c)]
       /\ ret' = Ret("add_capability", <<o, c>>, None)
  /\ UNCHANGED <<agents, regLog>>

\* capability_registry.register_agent(a) for an object constructed earlier;
\* regLog keeps the "[UCP] Registered agent" notices, one object per notice.
RegisterAgentCall ==
  /\ Len(regLog) < MaxRegs
  /\ \E o \in Refs :
       /\ agents' = RegisterAgent(agents, heap, o)
       /\ regLog' = Append(regLog, o)
       /\ ret' = Ret("register_agent", <<o>>, None)
  /\ UNCHANGED heap

\* the caps added one by one to the new object (the for loop of
\* register_agent_capabilities), from cap i
RECURSIVE AddAll(_, _, _)
AddAll(a, caps, i) ==
  IF i > Len(caps) THEN a ELSE AddAll(AddCapability(a, caps[i]), caps, i + 1)

\* agent.py register_agent_capabilities(agent_name, agent_id, caps): the only
\* place an AgentCapabilities is constructed.
RegisterAgentCapabilities ==
  /\ Len(heap) < MaxObjects
  /\ Len(regLog) < MaxRegs
  /\ \E name \in AgentNames, id \in AgentIds,
        caps \in SeqsUpTo(CapPool, MaxCaps - TotalCaps) :
       LET o == Len(heap) + 1
           h == Append(heap, AddAll(NewAgentCapabilities(name, id), caps, 1))
       IN /\ heap' = h
          /\ agents' = RegisterAgent(agents, h, o)
          /\ regLog' = Append(regLog, o)
          /\ ret' = Ret("register_agent_capabilities", <<name, id, caps>>, None)

\* A caller reaches an AgentCapabilities through get_agent_capabilities (the
\* code constructing one, register_agent_capabilities, returns nothing), so
\* the methods below are called on the object that call has just returned.
Held == IF ret.op = "get_agent_capabilities" THEN {ret.val[i] : i \in 1..Len(ret.val)} ELSE {}

GetCapabilityCall ==
  \E o \in Held, n \in QueryNames :
    /\ ret' = Ret("get_capability", <<o, n>>, GetCapability(heap[o], n))
    /\ UNCHANGED <<heap, agents, regLog>>

GetCapabilitiesByTypeCall ==
  \E o \in Held, t \in QueryTypes :
    /\ ret' = Ret("get_capabilities_by_type", <<o, t>>, GetCapabilitiesByType(heap[o], t))
    /\ UNCHANGED <<heap, agents, regLog>>

ToDictCall ==
  \E o \in Held :
    /\ ret' = Ret("to_dict", <<o>>, AgentToDict(heap[o]))
    /\ UNCHANGED <<heap, agents, regLog>>

GetAgentCapabilitiesCall ==
  \E id \in AgentIds :
    /\ ret' = Ret("get_agent_capabilities", <<id>>, GetAgentCapabilities(agents, id))
    /\ UNCHANGED <<heap, agents, regLog>>

GetAllCapabilitiesByTypeCall ==
  \E t \in QueryTypes :
    /\ ret' = Ret("get_all_capabilities_by_type", <<t>>,
                  GetAllCapabilitiesByType(agents, heap, t))
    /\ UNCHANGED <<heap, agents, regLog>>

DiscoverCapabilitiesCall ==
  /\ ret' = Ret("discover_capabilities", <<>>, DiscoverCapabilities(agents, heap))
  /\ UNCHANGED <<heap, agents, regLog>>

CanAgentPerformCall ==
  \E id \in AgentIds, n \in QueryNames :
    /\ ret' = Ret("can_agent_perform", <<id, n>>, CanAgentPerform(agents, heap, id, n))
    /\ UNCHANGED <<heap, agents, regLog>>

FindAgentForCapabilityCall ==
  \E n \in QueryNames :
    /\ ret' = Ret("find_agent_for_capability", <<n>>,
                  FindAgentForCapability(agents, heap, n))
    /\ UNCHANGED <<heap, agents, regLog>>

PrintRegistryCall ==
  /\ ret' = Ret("print_registry", <<>>, PrintRegistry(agents, heap))
  /\ UNCHANGED <<heap, agents, regLog>>

\* The calls that change the registry or an AgentCapabilities.
Mutate ==
  \/ AddCapabilityCall
  \/ RegisterAgentCall
  \/ RegisterAgentCapabilities

Next ==
  \/ Mutate
  \/ GetCapabilityCall
  \/ GetCapabilitiesByTypeCall
  \/ ToDictCall
  \/ GetAgentCapabilitiesCall
  \/ GetAllCapabilitiesByTypeCall
  \/ DiscoverCapabilitiesCall
  \/ CanAgentPerformCall
  \/ FindAgentForCapabilityCall
  \/ PrintRegistryCall

\* Every operation of the registry and of AgentCapabilities.
Spec == Init /\ [][Next]_vars

\* The mutating calls together with the lookups by agent id.
NextLookup == Mutate \/ GetAgentCapabilitiesCall \/ CanAgentPerformCall
SpecLookup == Init /\ [][NextLookup]_vars

\* ... with the search by capability name.
NextFind == Mutate \/ FindAgentForCapabilityCall
SpecFind == Init /\ [][NextFind]_vars

\* ... with the queries by kind.
NextKind == Mutate \/ GetAgentCapabilitiesCall \/ GetCapabilitiesByTypeCall \/ GetAllCapabilitiesByTypeCall
SpecKind == Init /\ [][NextKind]_vars

\* ... with the lookup by name in one AgentCapabilities.
NextName == Mutate \/ GetAgentCapabilitiesCall \/ GetCapabilityCall
SpecName == Init /\ [][NextName]_vars

\* ... with the structured forms.
NextDict == Mutate \/ GetAgentCapabilitiesCall \/ ToDictCall \/ DiscoverCapabilitiesCall
SpecDict == Init /\ [][NextDict]_vars

(* ------------------ vocabulary of the properties ----------------------- *)

\* The agent id of a constructed object.
IdOf(o) == heap[o].agent_id

\* Ids some register_agent call has been made with, read off the notices.
RegisteredIds == {IdOf(regLog[i]) : i \in 1..Len(regLog)}

\* Positions of the register_agent calls made with this id.
RegCalls(id) == {i \in 1..Len(regLog) : IdOf(regLog[i]) = id}

Smallest(S) == CHOOSE x \in S : \A y \in S : x <= y
Largest(S) == CHOOSE x \in S : \A y \in S : x >= y

\* The object passed to the most recent register_agent call for this id.
LastRegistered(id) == regLog[Largest(RegCalls(id))]

\* The position of the first register_agent call for this id.
FirstCall(id) == Smallest(RegCalls(id))

\* The registered ids in the order each was first registered.
RECURSIVE FirstRegistrationOrder(_)
FirstRegistrationOrder(i) ==
  IF i = 0 THEN <<>>
  ELSE LET before == FirstRegistrationOrder(i - 1)
           id == IdOf(regLog[i])
       IN IF \E j \in 1..Len(before) : before[j] = id THEN before
          ELSE Append(before, id)

\* The names of the capabilities an object holds now.
NamesOf(o) == {heap[o].capabilities[k].name : k \in 1..Len(heap[o].capabilities)}

\* Positions of an object's capabilities of one kind, and the j-th of them.
KindPositions(o, t) ==
  {k \in 1..Len(heap[o].capabilities) : heap[o].capabilities[k].capability_type = t}

NthPosition(S, j) == CHOOSE k \in S : Cardinality({m \in S : m <= k}) = j

\* Entries of an ordered mapping (a sequence of pairs) under one key.
EntriesFor(m, k) == {i \in 1..Len(m) : m[i][1] = k}
KeyOrder(m) == [i \in 1..Len(m) |-> m[i][1]]

\* C1. The registry holds at most one AgentCapabilities per agent id, the one
\* passed to the most recent register_agent call for that id; every query for
\* the id reflects that object's capabilities only, whatever an object
\* registered earlier under the id holds.
C1_ReplacesWholesale ==
  /\ \A id \in AgentIds : Cardinality(EntriesFor(agents, id)) <= 1
  /\ \A id \in RegisteredIds :
       LET b == LastRegistered(id)
           caps == heap[b].capabilities
       IN /\ GetAgentCapabilities(agents, id) = Some(b)
          /\ \A n \in CapabilityNames :
               /\ CanAgentPerform(agents, heap, id, n) <=> n \in NamesOf(b)
               /\ FindAgentForCapability(agents, heap, n) = Some(id) => n \in NamesOf(b)
          /\ \A t \in CapabilityType :
               LET r == GetAllCapabilitiesByType(agents, heap, t)
               IN \A i \in EntriesFor(r, id) :
                    \A j \in 1..Len(r[i][2]) :
                      \E k \in KindPositions(b, t) : r[i][2][j] = caps[k]
          /\ LET dc == DiscoverCapabilities(agents, heap)
             IN /\ Cardinality(EntriesFor(dc, id)) = 1
                /\ \A i \in EntriesFor(dc, id) :
                     /\ Len(dc[i][2].capabilities) = Len(caps)
                     /\ \A k \in 1..Len(caps) :
                          dc[i][2].capabilities[k].name = caps[k].name

\* Reached: B, holding nothing, was registered under the id of A, which holds
\* a capability, and get_agent_capabilities has returned B.
C1_Witness ==
  \E a \in Refs, b \in Refs :
    /\ a # b /\ IdOf(a) = IdOf(b)
    /\ \E i \in RegCalls(IdOf(a)) : regLog[i] = a
    /\ LastRegistered(IdOf(b)) = b
    /\ heap[a].capabilities # <<>>
    /\ heap[b].capabilities = <<>>
    /\ ret = Ret("get_agent_capabilities", <<IdOf(b)>>, Some(b))

\* Registered ids holding a capability of this name in the object registered
\* last under them.
Holders(n) == {id \in RegisteredIds : n \in NamesOf(LastRegistered(id))}

\* C2. find_agent_for_capability(n) is the id registered earliest (by its
\* first registration) among the registered agents holding a capability
\* named exactly n, and None when no registered agent holds one.
C2_FindEarliestRegistered ==
  \A n \in CapabilityNames :
    FindAgentForCapability(agents, heap, n) =
      IF Holders(n) = {} THEN None
      ELSE Some(CHOOSE id \in Holders(n) :
                  \A other \in Holders(n) : FirstCall(id) <= FirstCall(other))

\* Reached: two registered agents hold the name and the call returned the
\* one registered first.
C2_Witness ==
  \E n \in QueryNames, id \in AgentIds, other \in AgentIds :
    /\ {id, other} \subseteq Holders(n)
    /\ FirstCall(id) < FirstCall(other)
    /\ ret = Ret("find_agent_for_capability", <<n>>, Some(id))

\* C3. can_agent_perform(id, n) is true exactly when the registry has an
\* entry under id whose object holds a capability named n.
C3_CanAgentPerform ==
  \A id \in AgentIds, n \in CapabilityNames :
    CanAgentPerform(agents, heap, id, n) <=>
      \E i \in 1..Len(agents) :
        /\ agents[i][1] = id
        /\ \E k \in 1..Len(heap[agents[i][2]].capabilities) :
             heap[agents[i][2]].capabilities[k].name = n

\* Reached: the empty id is registered with an object holding a capability,
\* the other id is unknown, and the call for the empty id and a name the
\* object lacks returned False.
C3_Witness ==
  /\ DictKeys(agents) = {""}
  /\ \E o \in Refs :
       /\ agents[1][2] = o
       /\ heap[o].capabilities # <<>>
       /\ \E n \in QueryNames \ NamesOf(o) :
            ret = Ret("can_agent_perform", <<"", n>>, FALSE)
  /\ \E n \in QueryNames : CanAgentPerform(agents, heap, "", n)

\* C4. The keys of get_all_capabilities_by_type(t) are exactly the registered
\* ids whose object holds a capability of kind t, each once, and each maps to
\* the object's capabilities of kind t in insertion order.
C4_AllByKind ==
  \A t \in CapabilityType :
    LET r == GetAllCapabilitiesByType(agents, heap, t)
    IN /\ {r[i][1] : i \in 1..Len(r)} =
            {id \in DictKeys(agents) :
               \E i \in 1..Len(agents) :
                 agents[i][1] = id /\ KindPositions(agents[i][2], t) # {}}
       /\ \A i \in 1..Len(r) :
            /\ Cardinality(EntriesFor(r, r[i][1])) = 1
            /\ \E e \in EntriesFor(agents, r[i][1]) :
                 LET o == agents[e][2]
                     pos == KindPositions(o, t)
                 IN /\ Len(r[i][2]) = Cardinality(pos)
                    /\ \A j \in 1..Len(r[i][2]) :
                         r[i][2][j] = heap[o].capabilities[NthPosition(pos, j)]
       /\ (agents = <<>> => r = <<>>)

\* Reached: two agents are registered, one holds two capabilities of the
\* kind asked for and the other none, and the call returned the one entry.
C4_Witness ==
  \E t \in QueryTypes :
    /\ Len(agents) = 2
    /\ ret.op = "get_all_capabilities_by_type"
    /\ ret.args = <<t>>
    /\ Len(ret.val) = 1
    /\ Len(ret.val[1][2]) = 2
    /\ ret.val[1][2][1] # ret.val[1][2][2]

\* C5. get_capability(n) on any AgentCapabilities is the first-added of its
\* capabilities named n, and None exactly when it holds none of that name.
C5_GetCapabilityFirst ==
  \A o \in Refs, n \in CapabilityNames :
    LET caps == heap[o].capabilities
        named == {k \in 1..Len(caps) : caps[k].name = n}
    IN GetCapability(heap[o], n) =
         IF named = {} THEN None ELSE Some(caps[Smallest(named)])

\* Reached: an object holds two different capabilities of one name, the
\* second added by add_capability, and get_capability returned the first.
C5_Witness ==
  \E o \in Refs :
    /\ Len(heap[o].capabilities) = 2
    /\ heap[o].capabilities[1].name = heap[o].capabilities[2].name
    /\ heap[o].capabilities[1] # heap[o].capabilities[2]
    /\ ret = Ret("get_capability", <<o, heap[o].capabilities[1].name>>,
                 Some(heap[o].capabilities[1]))

\* The entries of the registry under one id, as a set of <<id, reference>>.
Stored(d, id) == {d[i] : i \in EntriesFor(d, id)}

\* In the state (d, h), capability c, the k-th of the object o stored under
\* id, shows in every registry query.
Visible(d, h, id, o, k, c) ==
  /\ CanAgentPerform(d, h, id, c.name)
  /\ FindAgentForCapability(d, h, c.name) # None
  /\ (\A i \in 1..Len(d) : d[i][1] # id =>
        \A m \in 1..Len(h[d[i][2]].capabilities) :
          h[d[i][2]].capabilities[m].name # c.name)
       => FindAgentForCapability(d, h, c.name) = Some(id)
  /\ LET r == GetAllCapabilitiesByType(d, h, c.capability_type)
     IN \E i \in EntriesFor(r, id) : \E j \in 1..Len(r[i][2]) : r[i][2][j] = c
  /\ LET dc == DiscoverCapabilities(d, h)
     IN \E i \in EntriesFor(dc, id) :
          /\ Len(dc[i][2].capabilities) = Len(h[o].capabilities)
          /\ dc[i][2].capabilities[k] = CapabilityToDict(c)

\* A step in which add_capability(c) returned for an object o that the
\* registry stores: c is then the last capability of o and shows in every
\* query; and whenever the registry or an object changes, every capability
\* of every stored object shows.
C6_Step ==
  /\ (/\ ret'.op = "add_capability"
      /\ <<IdOf(ret'.args[1]), ret'.args[1]>> \in Stored(agents, IdOf(ret'.args[1])))
     => LET o == ret'.args[1]
            c == ret'.args[2]
            n == Len(heap'[o].capabilities)
        IN /\ <<IdOf(o), o>> \in Stored(agents', IdOf(o))
           /\ n = Len(heap[o].capabilities) + 1
           /\ heap'[o].capabilities[n] = c
           /\ Visible(agents', heap', IdOf(o), o, n, c)
  /\ (agents' # agents \/ heap' # heap) =>
       \A i \in 1..Len(agents') :
         \A k \in 1..Len(heap'[agents'[i][2]].capabilities) :
           Visible(agents', heap', agents'[i][1], agents'[i][2], k,
                   heap'[agents'[i][2]].capabilities[k])

\* C6. The registry holds the registered object by reference: a capability
\* added to it after registration, while it is still the stored entry, is
\* seen by every later registry query.
C6_AddAfterRegisterVisible == [][C6_Step]_vars

\* Reached: add_capability returned for a stored object that already held a
\* capability of the same name, another agent being registered too.
C6_Witness ==
  /\ ret.op = "add_capability"
  /\ LET o == ret.args[1]
     IN /\ <<IdOf(o), o>> \in Stored(agents, IdOf(o))
        /\ Len(heap[o].capabilities) = 2
        /\ heap[o].capabilities[1].name = ret.args[2].name
        /\ heap[o].capabilities[1] # ret.args[2]
  /\ Len(agents) = 2

\* get_agent_capabilities is None exactly for the ids never registered.
C7_Inv ==
  \A id \in AgentIds :
    GetAgentCapabilities(agents, id) = None <=> id \notin RegisteredIds

\* A step: an id that has an entry keeps one, and a register_agent call that
\* returned has left its object under its id.
C7_Step ==
  /\ C7_Inv'
  /\ \A id \in AgentIds :
       GetAgentCapabilities(agents, id) # None => GetAgentCapabilities(agents', id) # None
  /\ ret'.op = "register_agent" =>
       GetAgentCapabilities(agents', IdOf(ret'.args[1])) = Some(ret'.args[1])
  /\ ret'.op = "register_agent_capabilities" =>
       GetAgentCapabilities(agents', ret'.args[2]) = Some(Len(heap'))

\* C7. get_agent_capabilities(id) is None exactly when no register_agent
\* call was made with that id; once registered an id is never absent again;
\* register_agent succeeds for any object, the empty id and an object without
\* capabilities included.
C7_AbsentIffNeverRegistered == C7_Inv /\ [][C7_Step]_vars

\* Reached: an object without capabilities is registered under the empty id
\* and was returned for it, and the other id was never registered.
C7_Witness ==
  /\ RegisteredIds = {""}
  /\ ret.op = "get_agent_capabilities"
  /\ ret.args = <<"">>
  /\ ret.val # None
  /\ heap[ret.val[1]].capabilities = <<>>
  /\ GetAgentCapabilities(agents, "agent-a") = None

\* CapabilityType(value): the member whose value is the string.
CapabilityTypeOf(v) == CHOOSE t \in CapabilityType : CapabilityTypeValue(t) = v

\* Decoding one element of a structured capabilities list.
Decode(x) ==
  Capability(x.name, CapabilityTypeOf(x.type), x.description, x.parameters,
             x.required_permissions)

TypeTags == {"weather", "filesystem", "copywriting", "review", "analysis", "orchestration"}

\* The structured form d lists the capabilities caps, one element each, in
\* order, each decoding to the capability it stands for, its kind a string.
RoundTrips(d, caps) ==
  /\ Len(d.capabilities) = Len(caps)
  /\ \A i \in 1..Len(caps) :
       /\ d.capabilities[i].type \in TypeTags
       /\ Decode(d.capabilities[i]) = caps[i]

\* C8. to_dict of every AgentCapabilities, and every entry of
\* discover_capabilities, lists the capabilities in insertion order and
\* decodes to them; discover_capabilities has one entry per registered id.
C8_RoundTrip ==
  /\ \A o \in Refs : RoundTrips(AgentToDict(heap[o]), heap[o].capabilities)
  /\ LET dc == DiscoverCapabilities(agents, heap)
     IN /\ {dc[i][1] : i \in 1..Len(dc)} = RegisteredIds
        /\ Len(dc) = Cardinality(RegisteredIds)
        /\ \A i \in 1..Len(dc) :
             /\ dc[i][2].agent_id = dc[i][1]
             /\ RoundTrips(dc[i][2], heap[LastRegistered(dc[i][1])].capabilities)

\* Reached: discover_capabilities returned two entries, one of them with two
\* capabilities of different kinds.
C8_Witness ==
  /\ ret.op = "discover_capabilities"
  /\ Len(ret.val) = 2
  /\ \E i \in 1..2 :
       /\ Len(ret.val[i][2].capabilities) = 2
       /\ ret.val[i][2].capabilities[1].type # ret.val[i][2].capabilities[2].type

\* The keys of the ordered mapping m follow the order of the sequence ord.
FollowsOrder(m, ord) ==
  \A i \in 1..Len(m), j \in 1..Len(m) :
    i < j => \E p \in 1..Len(ord), q \in 1..Len(ord) :
               p < q /\ ord[p] = m[i][1] /\ ord[q] = m[j][1]

\* C9. The registry iterates in the order each id was first registered;
\* registering an id again does not move it.  find_agent_for_capability,
\* get_all_capabilities_by_type and discover_capabilities follow that order.
C9_FirstRegistrationOrder ==
  LET ord == FirstRegistrationOrder(Len(regLog))
  IN /\ KeyOrder(agents) = ord
     /\ KeyOrder(DiscoverCapabilities(agents, heap)) = ord
     /\ \A t \in CapabilityType :
          FollowsOrder(GetAllCapabilitiesByType(agents, heap, t), ord)
     /\ \A n \in CapabilityNames :
          \A i \in 1..Len(ord) :
            (/\ n \in NamesOf(LastRegistered(ord[i]))
             /\ \A j \in 1..(i - 1) : n \notin NamesOf(LastRegistered(ord[j])))
            => FindAgentForCapability(agents, heap, n) = Some(ord[i])

\* Reached: A, B, A2 were registered in this order, A and A2 under one id and
\* B under another; A lacks the name n, which B and A2 hold; and
\* find_agent_for_capability(n) returned the id of A2, listed first.
C9_Witness ==
  \E n \in QueryNames :
    /\ regLog = <<1, 2, 3>>
    /\ IdOf(1) = IdOf(3) /\ IdOf(2) # IdOf(1)
    /\ n \notin NamesOf(1) /\ n \in NamesOf(2) /\ n \in NamesOf(3)
    /\ KeyOrder(agents) = <<IdOf(1), IdOf(2)>>
    /\ KeyOrder(GetAllCapabilitiesByType(agents, heap, "REVIEW")) = <<IdOf(1), IdOf(2)>>
    /\ ret = Ret("find_agent_for_capability", <<n>>, Some(IdOf(3)))

QueryOps ==
  {"get_agent_capabilities", "get_all_capabilities_by_type", "discover_capabilities",
   "can_agent_perform", "find_agent_for_capability", "print_registry",
   "get_capability", "get_capabilities_by_type", "to_dict"}

\* What a call that changed the mapping or the heap has changed.
C10_Change ==
  /\ agents' # agents =>
       /\ ret'.op \in {"register_agent", "register_agent_capabilities"}
       /\ LET o == IF ret'.op = "register_agent" THEN ret'.args[1] ELSE Len(heap')
              id == heap'[o].agent_id
          IN /\ Stored(agents', id) = {<<id, o>>}
             /\ \A k \in AgentIds \ {id} : Stored(agents', k) = Stored(agents, k)
  /\ ret'.op = "register_agent" => heap' = heap
  /\ ret'.op = "register_agent_capabilities" =>
       /\ Len(heap') = Len(heap) + 1
       /\ \A o \in Refs : heap'[o] = heap[o]
  /\ (\E o \in Refs : heap'[o] # heap[o]) =>
       /\ ret'.op = "add_capability"
       /\ agents' = agents
       /\ \E o \in Refs, c \in CapPool :
            heap' = [heap EXCEPT ![o].capabilities = Append(@, c)]

\* A step: a query changes nothing, and a change is one of the above.
C10_Step ==
  /\ ret'.op \in QueryOps => (agents' = agents /\ heap' = heap)
  /\ (agents' # agents \/ heap' # heap) => C10_Change

\* C10. No query changes the registry's mapping or any capability sequence;
\* only register_agent changes the mapping, and only the entry of the id
\* registered; only add_capability changes a capability sequence, appending
\* one element to one object.
C10_Frame == [][C10_Step]_vars

\* Reached: print_registry returned with two agents registered that hold
\* capabilities.
C10_Witness ==
  /\ ret.op = "print_registry"
  /\ Len(agents) = 2
  /\ \A i \in 1..2 : heap[agents[i][2]].capabilities # <<>>

====
